---- MODULE Spec2Model ----
(***************************************************************************)
(* A model of the tectonic tick-database server (src/bin/server/server.rs). *)
(*                                                                         *)
(* One TCP connection is served by one worker (handle_client).  The worker *)
(* owns a State (a map of Stores, the current store name, the bulk-add     *)
(* flag) and shares only the data folder with the rest of the world.       *)
(* Requests are strings; they are modelled as sequences of one-character   *)
(* strings so that the dispatcher's prefix tests, its slicing and the line *)
(* parser are computed character by character, as in the source.           *)
(*                                                                         *)
(* The dtf library (encode, append, decode, get_size) is not part of the   *)
(* server source; it is modelled from its contract (see dtf_* below).      *)
(***************************************************************************)
EXTENDS Integers, Sequences, FiniteSets, TLC

(***************************************************************************)
(* Bounds of the model.                                                    *)
(***************************************************************************)
\* most updates the stores of a connection buffer together
MaxBuf == 1
\* largest flush_interval a server is configured with
MaxInterval == 2
\* largest count a GET request asks for
MaxGet == 2

(***************************************************************************)
(* Strings.                                                                *)
(***************************************************************************)
Digits == {"0", "1", "2", "3", "4", "5", "6", "7", "8", "9"}

DigitVal(ch) ==
  CASE ch = "0" -> 0 [] ch = "1" -> 1 [] ch = "2" -> 2 [] ch = "3" -> 3
    [] ch = "4" -> 4 [] ch = "5" -> 5 [] ch = "6" -> 6 [] ch = "7" -> 7
    [] ch = "8" -> 8 [] ch = "9" -> 9

\* string[from..to) with 0-based byte offsets, as Rust's &string[from..to]
Slice(string, from, to) == SubSeq(string, from + 1, to)

\* string[from..]
SliceFrom(string, from) == SubSeq(string, from + 1, Len(string))

\* str::starts_with
StartsWith(string, pat) ==
  /\ Len(pat) <= Len(string)
  /\ SubSeq(string, 1, Len(pat)) = pat

\* the scan of str::match_indices from the 0-based offset i: after a match
\* the scan goes on behind it, so the matches do not overlap
RECURSIVE MatchFrom(_, _, _)
MatchFrom(string, pat, i) ==
  IF i > Len(string) - Len(pat) THEN {}
  ELSE IF SubSeq(string, i + 1, i + Len(pat)) = pat
       THEN {i} \cup MatchFrom(string, pat, i + Len(pat))
       ELSE MatchFrom(string, pat, i + 1)

\* the 0-based offsets at which pat occurs in string, overlapping or not
Occurrences(string, pat) ==
  {i \in 0..(Len(string) - Len(pat)) : SubSeq(string, i + 1, i + Len(pat)) = pat}

\* the 0-based offsets of the matches of pat in string (str::match_indices):
\* every occurrence when no two overlap, the scan's choice when some do
MatchIndices(string, pat) ==
  IF \A i, j \in Occurrences(string, pat) : i < j => i + Len(pat) <= j
  THEN Occurrences(string, pat)
  ELSE MatchFrom(string, pat, 0)

\* str::contains
Contains(string, pat) == MatchIndices(string, pat) # {}

Min(S) == CHOOSE x \in S : \A y \in S : x <= y

\* the first piece of string.split(" ")
FirstToken(string) ==
  LET sp == MatchIndices(string, <<" ">>)
  IN  IF sp = {} THEN string ELSE Slice(string, 0, Min(sp))

(***************************************************************************)
(* Number parsing (str::parse).                                            *)
(***************************************************************************)
U64MaxDigits == <<"1","8","4","4","6","7","4","4","0","7","3","7","0","9","5","5","1","6","1","5">>
U32MaxDigits == <<"4","2","9","4","9","6","7","2","9","5">>
I32MaxDigits == <<"2","1","4","7","4","8","3","6","4","7">>
I32MinDigits == <<"2","1","4","7","4","8","3","6","4","8">>

RECURSIVE StripZeros(_)
StripZeros(ds) ==
  IF Len(ds) > 1 /\ ds[1] = "0" THEN StripZeros(Tail(ds)) ELSE ds

RECURSIVE LexLE(_, _)
LexLE(a, b) ==
  IF a = <<>> THEN TRUE
  ELSE IF DigitVal(a[1]) # DigitVal(b[1]) THEN DigitVal(a[1]) < DigitVal(b[1])
  ELSE LexLE(Tail(a), Tail(b))

\* a <= b for two digit strings without leading zeros
DigitsLE(a, b) == Len(a) < Len(b) \/ (Len(a) = Len(b) /\ LexLE(a, b))

RECURSIVE DigitsValue(_)
DigitsValue(ds) ==
  IF ds = <<>> THEN 0
  ELSE 10 * DigitsValue(SubSeq(ds, 1, Len(ds) - 1)) + DigitVal(ds[Len(ds)])

AllDigits(buf) == \A i \in 1..Len(buf) : buf[i] \in Digits

Err == [ok |-> FALSE, val |-> 0]
Ok(x) == [ok |-> TRUE, val |-> x]

\* buf.parse::<u64>() and buf.parse::<u32>(): one or more digits, no
\* overflow; anything else is Err.
ParseUnsigned(buf, maxDigits) ==
  IF buf = <<>> \/ ~AllDigits(buf) THEN Err
  ELSE IF ~DigitsLE(StripZeros(buf), maxDigits) THEN Err
  ELSE Ok(DigitsValue(StripZeros(buf)))

ParseU64(buf) == ParseUnsigned(buf, U64MaxDigits)
ParseU32(buf) == ParseUnsigned(buf, U32MaxDigits)

\* token.parse::<i32>(): an optional sign, then digits.
ParseI32(tok) ==
  IF tok # <<>> /\ tok[1] = "-"
  THEN LET r == ParseUnsigned(Tail(tok), I32MinDigits)
       IN  IF r.ok THEN Ok(0 - r.val) ELSE Err
  ELSE IF tok # <<>> /\ tok[1] = "+" THEN ParseUnsigned(Tail(tok), I32MaxDigits)
  ELSE ParseUnsigned(tok, I32MaxDigits)

\* a decimal number as the sequence of the values of its digits
DigitVals(ds) == [i \in 1..Len(ds) |-> DigitVal(ds[i])]

IsZero(dv) == \A i \in 1..Len(dv) : dv[i] = 0

\* the 8 bits of a byte, the highest first
ByteBits(r) == [i \in 1..8 |-> (r \div 2^(8 - i)) % 2]

\* the decimal integer dv divided by 256, from its i-th digit on: the digits
\* q of the quotient and the remainder r.  The carry is a byte and acc has
\* the digits done so far: the two tests that say so never hold, and make
\* TLC compute both in every call rather than at the end.
RECURSIVE DivFrom(_, _, _, _)
DivFrom(dv, i, carry, acc) ==
  IF i > Len(dv) \/ carry > 255 \/ Len(acc) > Len(dv) THEN [q |-> acc, r |-> carry]
  ELSE DivFrom(dv, i + 1, (carry * 10 + dv[i]) % 256,
               Append(acc, (carry * 10 + dv[i]) \div 256))

\* the bits of the decimal integer dv, the highest first, a byte at a time
RECURSIVE IntBytes(_, _)
IntBytes(dv, acc) ==
  IF IsZero(dv) THEN acc
  ELSE IntBytes(DivFrom(dv, 1, 0, <<>>).q,
                ByteBits(DivFrom(dv, 1, 0, <<>>).r) \o acc)

\* the bits of the decimal integer dv from its first set bit on, none if
\* it is 0
IntBits(dv) ==
  LET bits == IntBytes(dv, <<>>)
      ones == {i \in 1..Len(bits) : bits[i] = 1}
  IN  IF ones = {} THEN <<>> ELSE SubSeq(bits, Min(ones), Len(bits))

\* 256 times the decimal fraction 0.dv, from its i-th digit back: the
\* digits f of its fraction and its integer part c, a byte (the tests on
\* carry and acc are those of DivFrom)
RECURSIVE MulFrom(_, _, _, _)
MulFrom(dv, i, carry, acc) ==
  IF i = 0 \/ carry > 255 \/ Len(acc) > Len(dv) THEN [c |-> carry, f |-> acc]
  ELSE MulFrom(dv, i - 1, (256 * dv[i] + carry) \div 10,
               <<(256 * dv[i] + carry) % 10>> \o acc)

\* the first 8 * n bits of the decimal fraction 0.dv and the fraction left
RECURSIVE FracBits(_, _, _)
FracBits(dv, n, acc) ==
  IF n = 0 THEN [bits |-> acc, rest |-> dv]
  ELSE FracBits(MulFrom(dv, Len(dv), 0, <<>>).f, n - 1,
                acc \o ByteBits(MulFrom(dv, Len(dv), 0, <<>>).c))

RECURSIVE BitsValue(_)
BitsValue(bits) ==
  IF bits = <<>> THEN 0
  ELSE 2 * BitsValue(SubSeq(bits, 1, Len(bits) - 1)) + bits[Len(bits)]

\* the bit pattern of the f32 infinity
F32Infinity == 255 * 2^23

\* the significand m (the bits kept), the next bit and whether any bit
\* after it is set, rounded to nearest, ties to even
RoundedSignificand(m, round, sticky) ==
  IF round = 1 /\ (sticky \/ m % 2 = 1) THEN m + 1 ELSE m

\* the bit pattern with the exponent field e whose significand is the k bits
\* of S after its first z, rounded to nearest, ties to even, on the bit that
\* follows and on whether anything but zeros comes after that one (in S or,
\* with rest, in the digits S leaves out); a carry out of the significand
\* goes into the exponent
F32Pack(e, S, z, k, rest) ==
  e * 2^23 + RoundedSignificand(BitsValue(SubSeq(S, z + 1, z + k)), S[z + k + 1],
                                (\E i \in (z + k + 2)..Len(S) : S[i] = 1) \/ rest)

\* a value of at least 1: its first set bit is implied, the 23 after it
\* are the significand
F32Normal(ib, fb) ==
  F32Pack(Len(ib) + 125, ib \o fb.bits, 0, 24, ~IsZero(fb.rest))

\* the zero bits a fraction starts with, 126 at most: after 126 the value
\* is subnormal
LeadingZeros(bits) ==
  LET ones == {i \in 1..Len(bits) : bits[i] = 1}
  IN  IF ones = {} \/ Min(ones) > 126 THEN 126 ELSE Min(ones) - 1

\* a value below 1 whose bits start with z zeros: normal when z < 126,
\* else subnormal (exponent field 0, no implied bit)
F32Small(fb, z) ==
  IF z < 126 THEN F32Pack(125 - z, fb.bits, z, 24, ~IsZero(fb.rest))
  ELSE F32Pack(0, fb.bits, 126, 23, ~IsZero(fb.rest))

\* the f32 of the bits ib of the integer part and the digits fp of the
\* fraction; above 128 bits the value is infinite
F32FromBits(ib, fp) ==
  IF Len(ib) > 128 THEN F32Infinity
  ELSE IF Len(ib) >= 1 THEN F32Normal(ib, FracBits(fp, 4, <<>>))
  ELSE F32Small(FracBits(fp, 19, <<>>), LeadingZeros(FracBits(fp, 19, <<>>).bits))

\* the bit pattern of the f32 nearest to the decimal with the integer
\* digits ip and the fraction digits fp
F32Bits(ip, fp) == F32FromBits(IntBits(ip), fp)

\* buf.parse::<f32>() of a buffer that holds only digits and dots: digits
\* with at most one dot and at least one digit.  The value is the f32
\* nearest to the decimal number, kept as its bit pattern; the sign bit is
\* kept as the sign of the integer, so that the order of the integers is
\* the order of the floats.
ParseF32(buf) ==
  LET dots == {i \in 1..Len(buf) : buf[i] = "."}
  IN  IF Cardinality(dots) > 1 \/ Len(buf) - Cardinality(dots) = 0 THEN Err
      ELSE IF \E i \in 1..Len(buf) : buf[i] \notin Digits \cup {"."} THEN Err
      ELSE LET d    == IF dots = {} THEN Len(buf) + 1 ELSE Min(dots)
               ip   == SubSeq(buf, 1, d - 1)
               fp   == SubSeq(buf, d + 1, Len(buf))
           IN  Ok(F32Bits(DigitVals(ip), DigitVals(fp)))

\* the float literal -0.1
MinusPointOne == 0 - ParseF32(<<"0", ".", "1">>).val

(***************************************************************************)
(* parse_line.                                                             *)
(***************************************************************************)
NoUpdate == [kind |-> "None"]
SomeUpdate(u) == [kind |-> "Some", u |-> u]
ParsePanic == [kind |-> "Panic"]

\* the Update parse_line starts from
InitialUpdate ==
  [ts |-> 0, seq |-> 0, is_bid |-> FALSE, is_trade |-> FALSE,
   price |-> MinusPointOne, size |-> MinusPointOne]

\* the end of parse_line: reject an update whose price or size is negative
ParseLineFinish(u) ==
  IF u.price < 0 \/ u.size < 0 THEN NoUpdate ELSE SomeUpdate(u)

\* the body of the match on count at a ',' or ';'
ParseField(u, buf, count, most_current_bool) ==
  CASE count = 0 -> LET r == ParseU64(buf)
                    IN IF r.ok THEN SomeUpdate([u EXCEPT !.ts = r.val]) ELSE NoUpdate
    [] count = 1 -> LET r == ParseU32(buf)
                    IN IF r.ok THEN SomeUpdate([u EXCEPT !.seq = r.val]) ELSE NoUpdate
    [] count = 2 -> SomeUpdate([u EXCEPT !.is_trade = most_current_bool])
    [] count = 3 -> SomeUpdate([u EXCEPT !.is_bid = most_current_bool])
    [] count = 4 -> LET r == ParseF32(buf)
                    IN IF r.ok THEN SomeUpdate([u EXCEPT !.price = r.val]) ELSE NoUpdate
    [] count = 5 -> LET r == ParseF32(buf)
                    IN IF r.ok THEN SomeUpdate([u EXCEPT !.size = r.val]) ELSE NoUpdate
    [] OTHER     -> ParsePanic

\* the loop over string.chars(), from the i-th character on
RECURSIVE ParseLoop(_, _, _, _, _, _)
ParseLoop(string, i, u, buf, count, most_current_bool) ==
  IF i > Len(string) THEN ParseLineFinish(u)
  ELSE LET ch == string[i]
       IN  IF ch = "." /\ count = 0
             THEN ParseLoop(string, i + 1, u, buf, count, most_current_bool)
           ELSE IF ch = "." /\ count # 0
             THEN ParseLoop(string, i + 1, u, Append(buf, ch), count, most_current_bool)
           ELSE IF ch \in Digits
             THEN ParseLoop(string, i + 1, u, Append(buf, ch), count, most_current_bool)
           ELSE IF ch = "t" \/ ch = "f"
             THEN ParseLoop(string, i + 1, u, buf, count, ch = "t")
           ELSE IF ch = "," \/ ch = ";"
             THEN LET f == ParseField(u, buf, count, most_current_bool)
                  IN  IF f.kind = "Some"
                        THEN ParseLoop(string, i + 1, f.u, <<>>, count + 1,
                                       most_current_bool)
                        ELSE f
           ELSE ParseLoop(string, i + 1, u, buf, count, most_current_bool)

parse_line(string) == ParseLoop(string, 1, InitialUpdate, <<>>, 0, FALSE)

(***************************************************************************)
(* The requests the model draws from.                                      *)
(***************************************************************************)
EmptyReq   == <<>>
PING       == <<"P","I","N","G">>
HELP       == <<"H","E","L","P">>
INFO       == <<"I","N","F","O">>
BULKADD    == <<"B","U","L","K","A","D","D">>
DDAKLUB    == <<"D","D","A","K","L","U","B">>
GETALLJSON == <<"G","E","T"," ","A","L","L"," ","A","S"," ","J","S","O","N">>
GETALL     == <<"G","E","T"," ","A","L","L">>
CLEAR      == <<"C","L","E","A","R">>
CLEARALL   == <<"C","L","E","A","R"," ","A","L","L">>
FLUSH      == <<"F","L","U","S","H">>
FLUSHALL   == <<"F","L","U","S","H"," ","A","L","L">>
ADD_       == <<"A","D","D"," ">>
INTO_      == <<" ","I","N","T","O"," ">>
CREATE_    == <<"C","R","E","A","T","E"," ">>
USE_       == <<"U","S","E"," ">>
GET_       == <<"G","E","T"," ">>
ASJSON     == <<"A","S"," ","J","S","O","N">>

\* the store name of init_state
DefaultName == <<"d","e","f","a","u","l","t">>

NameA == <<"a">>
DbNames == {DefaultName, NameA}

LineA == <<"1",".","0",","," ","1",","," ","t",","," ","t",","," ","1",".","0",","," ","2",".","0",";">>
LineB == <<"1","0","0","1",".","0","0","0",","," ","2",","," ","t",","," ","f",","," ","1",".","5",","," ","2",".","5",";">>
NegLine == <<"1",".","0",","," ","1",","," ","t",","," ","t",","," ","-","1",".","0",","," ","2",".","0",";">>
ShortLine == <<"1","5","0","5","1","7",";">>
Unsupported == <<"F","O","O">>
\* a well-formed line followed by one more terminator
ExtraLine == LineA \o <<";">>

\* a line followed by two blanks: what the slicing of ADD .. INTO .. cuts off
Padded(line) == line \o <<" ", " ">>

DigitChars == <<"0", "1", "2", "3", "4", "5", "6", "7", "8", "9">>

AddReq(line) == ADD_ \o line
AddIntoReq(line, name) == ADD_ \o line \o INTO_ \o name
CreateReq(name) == CREATE_ \o name
UseReq(name) == USE_ \o name
GetReq(n) == GET_ \o <<DigitChars[n + 1]>>
GetJsonReq(n) == GetReq(n) \o <<" ">> \o ASJSON

ExactRequests ==
  {EmptyReq, PING, HELP, INFO, BULKADD, DDAKLUB, GETALLJSON, GETALL, CLEAR,
   CLEARALL, FLUSH, FLUSHALL}

Lines == {LineA, LineB, NegLine, ShortLine, ExtraLine}

Requests ==
  ExactRequests \cup Lines \cup {Unsupported}
    \cup {AddReq(l) : l \in Lines}
    \cup {AddIntoReq(l, n) : l \in {LineA, Padded(LineA), Padded(LineB)}, n \in DbNames}
    \cup {CreateReq(NameA), UseReq(NameA), UseReq(DefaultName)}
    \cup {GetReq(n) : n \in 0..MaxGet} \cup {GetJsonReq(n) : n \in 0..MaxGet}

\* the strings gen_response hands to parse_line for these requests: the
\* request itself (bulk-add mode), string[3..] (ADD) and
\* string[3..index-2] (ADD .. INTO ..)
ParseInputs ==
  Requests
    \cup {SliceFrom(r, 3) : r \in {x \in Requests : StartsWith(x, ADD_)}}
    \cup {Slice(r, 3, Min(MatchIndices(r, INTO_)) - 2) :
            r \in {x \in Requests : StartsWith(x, ADD_) /\ Contains(x, INTO_)}}

\* parse_line on each of them, computed once
ParsedLines == [s \in ParseInputs |-> parse_line(s)]

(***************************************************************************)
(* The dtf tick-file library, from its contract: a file holds a sequence   *)
(* of updates; its header holds their count and their largest timestamp.   *)
(***************************************************************************)
NoFile == [exists |-> FALSE, ups |-> <<>>]
File(ups) == [exists |-> TRUE, ups |-> ups]

RECURSIVE MaxTs(_)
MaxTs(ups) ==
  IF ups = <<>> THEN 0
  ELSE LET m == MaxTs(Tail(ups)) IN IF ups[1].ts > m THEN ups[1].ts ELSE m

RECURSIVE Newer(_, _)
Newer(ups, ts) ==
  IF ups = <<>> THEN <<>>
  ELSE IF ups[1].ts > ts THEN <<ups[1]>> \o Newer(Tail(ups), ts)
  ELSE Newer(Tail(ups), ts)

\* dtf::encode: a new file that holds the updates
dtf_encode(ups) == File(ups)

\* dtf::append: add the updates strictly newer than the file's largest timestamp
dtf_append(file, ups) == File(file.ups \o Newer(ups, MaxTs(file.ups)))

\* dtf::decode: the updates of the file
dtf_decode(file) == file.ups

\* dtf::get_size: the header count; reading the header of a missing file fails
dtf_get_size(file) == IF file.exists THEN Ok(Len(file.ups)) ELSE Err

(***************************************************************************)
(* Store.                                                                  *)
(***************************************************************************)
Store(in_memory, size, v) == [in_memory |-> in_memory, size |-> size, v |-> v]

\* Store::add
Store_add(s, new_vec) == [s EXCEPT !.size = @ + 1, !.v = Append(@, new_vec)]

\* Store::flush that encodes a new file whether or not one exists
Store_flush_always_encode(name, s, fs) ==
  [fs EXCEPT ![name] = dtf_encode(s.v)]

\* Store::flush: the folder after the store named name has been flushed
Store_flush(name, s, fs) ==
  IF fs[name].exists
  THEN [fs EXCEPT ![name] = dtf_append(@, s.v)]
  ELSE [fs EXCEPT ![name] = dtf_encode(s.v)]

\* Store::load
Store_load(name, s, fs) ==
  IF fs[name].exists /\ ~s.in_memory
  THEN [s EXCEPT !.v = dtf_decode(fs[name]),
                 !.size = Len(dtf_decode(fs[name])),
                 !.in_memory = TRUE]
  ELSE s

\* Store::load_size_from_file; ok is FALSE when the header read aborts
Store_load_size_from_file(name, s, fs) ==
  LET header_size == dtf_get_size(fs[name])
  IN  [ok |-> header_size.ok, s |-> [s EXCEPT !.size = header_size.val]]

\* Store::clear
Store_clear(name, s, fs) ==
  Store_load_size_from_file(name, [s EXCEPT !.v = <<>>, !.in_memory = FALSE], fs)

(***************************************************************************)
(* State.                                                                  *)
(***************************************************************************)
\* an operation of State that ran to its end, and one that panicked
Went(st, fs) == [ok |-> TRUE, st |-> st, fs |-> fs]
Aborted(st, fs) == [ok |-> FALSE, st |-> st, fs |-> fs]

\* State::insert
State_insert(st, fs, up, store_name) ==
  IF store_name \notin DOMAIN st.store THEN Aborted(st, fs)
  ELSE Went([st EXCEPT !.store[store_name] = Store_add(@, up)], fs)

\* State::add
State_add(st, fs, up) ==
  IF st.current_store_name \notin DOMAIN st.store THEN Aborted(st, fs)
  ELSE Went([st EXCEPT !.store[st.current_store_name] = Store_add(@, up)], fs)

\* the test of State::autoflush: is a flush due?
AutoflushDue(st, cfg) ==
  cfg.autoflush /\ st.store[st.current_store_name].size % cfg.flush_interval = 0

\* State::autoflush
State_autoflush(st, fs, cfg) ==
  IF st.current_store_name \notin DOMAIN st.store THEN Aborted(st, fs)
  ELSE LET name == st.current_store_name
           current_store == st.store[name]
       IN  IF AutoflushDue(st, cfg)
           THEN LET flushed == Store_flush(name, current_store, fs)
                    sized   == Store_load_size_from_file(name, current_store, flushed)
                IN  IF sized.ok
                    THEN Went([st EXCEPT !.store[name] = sized.s], flushed)
                    ELSE Aborted(st, flushed)
           ELSE Went(st, fs)

\* State::get: None, Some(bytes) or a panic (unwrap, slice out of range).
\* The bytes of write_batches are kept as the updates they encode.
State_get(st, count) ==
  IF st.current_store_name \notin DOMAIN st.store THEN [kind |-> "Panic"]
  ELSE LET current_store == st.store[st.current_store_name]
       IN  IF current_store.size < count \/ current_store.size = 0
           THEN [kind |-> "None"]
           ELSE IF count = -1
           THEN [kind |-> "Some", bytes |-> current_store.v]
           ELSE IF count < 0 \/ count > Len(current_store.v)
           THEN [kind |-> "Panic"]
           ELSE [kind |-> "Some", bytes |-> SubSeq(current_store.v, 1, count)]

(***************************************************************************)
(* Responses and the dispatcher.                                           *)
(***************************************************************************)
\* the payload of a response: a fixed text s, the name it is formatted with,
\* the updates it renders, the store descriptions of INFO
Payload(s, arg, ups, info) == [s |-> s, arg |-> arg, ups |-> ups, info |-> info]
Text(s) == Payload(s, <<>>, <<>>, {})

\* the tuple (Option<String>, Option<Vec<u8>>, Option<String>) of
\* gen_response; an Option is the empty set or a singleton
Response(text, bin, err) == [text |-> text, bin |-> bin, err |-> err]
TextResp(p) == Response({p}, {}, {})
BinResp(p)  == Response({}, {p}, {})
\* an error that is also given as the text
ErrRespWithText(p) == Response({p}, {}, {p})
ErrResp(p)  == Response({}, {}, {p})
NoResp      == Response({}, {}, {})

\* the INFO line: one description per store
InfoOf(st) ==
  {[name |-> n, in_memory |-> st.store[n].in_memory, count |-> st.store[n].size]
     : n \in DOMAIN st.store}

\* what gen_response comes to: a response with the new state and folder,
\* or a panic of the worker
Returned(resp, st, fs) == [panic |-> FALSE, resp |-> resp, st |-> st, fs |-> fs]
Panicked(st, fs) == [panic |-> TRUE, resp |-> NoResp, st |-> st, fs |-> fs]

\* update_vec_to_json wrapped in "[..]\n", kept as the updates it renders
Json(ups) == Payload("json", <<>>, ups, {})

\* the arm of "CLEAR ALL": clear every store
ClearAll(st, fs) ==
  LET cleared == [n \in DOMAIN st.store |-> Store_clear(n, st.store[n], fs)]
  IN  IF \A n \in DOMAIN st.store : cleared[n].ok
      THEN Returned(TextResp(Text("1\n")),
                    [st EXCEPT !.store = [n \in DOMAIN st.store |-> cleared[n].s]], fs)
      ELSE Panicked(st, fs)

\* the arm of "FLUSH ALL": every store is flushed to the file of its name
FlushAll(st, fs) ==
  Returned(TextResp(Text("1\n")), st,
           [n \in DOMAIN fs |->
              IF n \in DOMAIN st.store THEN Store_flush(n, st.store[n], fs)[n]
              ELSE fs[n]])

\* add, then autoflush: the Some arm of the three places that add a line
AddThenFlush(added, cfg, text) ==
  IF ~added.ok THEN Panicked(added.st, added.fs)
  ELSE LET flushed == State_autoflush(added.st, added.fs, cfg)
       IN  IF flushed.ok THEN Returned(TextResp(Text(text)), flushed.st, flushed.fs)
           ELSE Panicked(flushed.st, flushed.fs)

\* the is_adding branch of the default arm
BulkLine(string, st, fs, cfg) ==
  LET parsed == ParsedLines[string]
  IN  CASE parsed.kind = "Some" -> AddThenFlush(State_add(st, fs, parsed.u), cfg, "")
        [] parsed.kind = "None" ->
             Returned(ErrResp(Text("Unable to parse line in BULKALL")), st, fs)
        [] OTHER -> Panicked(st, fs)

\* the "ADD " branch
AddCmd(string, st, fs, cfg) ==
  IF Contains(string, INTO_)
  THEN LET index == Min(MatchIndices(string, INTO_))
       IN  IF index - 2 < 3 THEN Panicked(st, fs)
           ELSE LET dbname      == SliceFrom(string, index + 6)
                    data_string == Slice(string, 3, index - 2)
                    parsed      == ParsedLines[data_string]
                IN  CASE parsed.kind = "Some" ->
                           AddThenFlush(State_insert(st, fs, parsed.u, dbname), cfg, "1\n")
                      [] parsed.kind = "None" ->
                           Returned(ErrResp(Text("Parse ADD INTO")), st, fs)
                      [] OTHER -> Panicked(st, fs)
  ELSE LET parsed == ParsedLines[SliceFrom(string, 3)]
       IN  CASE parsed.kind = "Some" -> AddThenFlush(State_add(st, fs, parsed.u), cfg, "1\n")
             [] parsed.kind = "None" -> Returned(ErrResp(Text("Parse ADD")), st, fs)
             [] OTHER -> Panicked(st, fs)

\* the "CREATE " branch
CreateCmd(string, st, fs) ==
  LET dbname == SliceFrom(string, 7)
  IN  Returned(TextResp(Payload("Created DB", dbname, <<>>, {})),
               [st EXCEPT !.store =
                  [n \in DOMAIN st.store \cup {dbname} |->
                     IF n = dbname THEN Store(FALSE, 0, <<>>) ELSE st.store[n]]],
               fs)

\* the "USE " branch without the contains_key test
UseCmdUnchecked(string, st, fs) ==
  LET dbname == SliceFrom(string, 4)
  IN  Returned(TextResp(Payload("SWITCHED TO DB", dbname, <<>>, {})),
               [st EXCEPT !.current_store_name = dbname,
                          !.store = [n \in DOMAIN st.store |->
                                       IF n = dbname THEN Store_load(n, st.store[n], fs)
                                       ELSE st.store[n]]],
               fs)

\* the "USE " branch that selects the name before it tests contains_key
UseCmdSwitchesFirst(string, st, fs) ==
  LET dbname == SliceFrom(string, 4)
  IN  IF dbname \in DOMAIN st.store
      THEN Returned(TextResp(Payload("SWITCHED TO DB", dbname, <<>>, {})),
                    [st EXCEPT !.current_store_name = dbname,
                               !.store[dbname] = Store_load(dbname, @, fs)],
                    fs)
      ELSE Returned(ErrResp(Payload("State does not contain", dbname, <<>>, {})),
                    [st EXCEPT !.current_store_name = dbname], fs)

\* the "USE " branch
UseCmd(string, st, fs) ==
  LET dbname == SliceFrom(string, 4)
  IN  IF dbname \in DOMAIN st.store
      THEN Returned(TextResp(Payload("SWITCHED TO DB", dbname, <<>>, {})),
                    [st EXCEPT !.current_store_name = dbname,
                               !.store[dbname] = Store_load(dbname, @, fs)],
                    fs)
      ELSE Returned(ErrResp(Payload("State does not contain", dbname, <<>>, {})), st, fs)

\* format!("{}", count) of an i32: its decimal digits, with a sign if negative
RECURSIVE FormatNat(_)
FormatNat(n) ==
  IF n < 10 THEN <<DigitChars[n + 1]>>
  ELSE FormatNat(n \div 10) \o <<DigitChars[(n % 10) + 1]>>

FormatI32(n) == IF n < 0 THEN <<"-">> \o FormatNat(0 - n) ELSE FormatNat(n)

\* the "GET " branch
GetCmd(string, st, fs) ==
  LET num    == SliceFrom(string, 4)
      parsed == ParseI32(FirstToken(num))
      count  == parsed.val
  IN  IF ~parsed.ok THEN Panicked(st, fs)
      ELSE IF Contains(string, ASJSON)
      THEN IF st.current_store_name \notin DOMAIN st.store THEN Panicked(st, fs)
           ELSE LET current_store == st.store[st.current_store_name]
                IN  IF current_store.size <= count \/ current_store.size = 0
                    THEN Returned(ErrResp(Text("Requested too many")), st, fs)
                    ELSE IF count < 0 \/ count > Len(current_store.v)
                    THEN Panicked(st, fs)
                    ELSE Returned(TextResp(Json(SubSeq(current_store.v, 1, count))),
                                  st, fs)
      ELSE LET got == State_get(st, count)
           IN  CASE got.kind = "Some" ->
                      Returned(BinResp(Payload("batches", <<>>, got.bytes, {})), st, fs)
                 [] got.kind = "None" ->
                      Returned(ErrResp(Payload("Failed to get", FormatI32(count), <<>>, {})),
                               st, fs)
                 [] OTHER -> Panicked(st, fs)

\* the default arm of the match
DefaultArm(string, st, fs, cfg) ==
  IF st.is_adding THEN BulkLine(string, st, fs, cfg)
  ELSE IF StartsWith(string, ADD_) THEN AddCmd(string, st, fs, cfg)
  ELSE IF StartsWith(string, CREATE_) THEN CreateCmd(string, st, fs)
  ELSE IF StartsWith(string, USE_) THEN UseCmd(string, st, fs)
  ELSE IF StartsWith(string, GET_) THEN GetCmd(string, st, fs)
  ELSE Returned(ErrResp(Text("Unsupported command.")), st, fs)

\* the arms of the match that resolve the current store
CurrentArm(string, st, fs) ==
  IF st.current_store_name \notin DOMAIN st.store THEN Panicked(st, fs)
  ELSE LET name == st.current_store_name
           current_store == st.store[name]
       IN  CASE string = GETALLJSON ->
                  Returned(TextResp(Json(current_store.v)), st, fs)
             [] string = CLEAR ->
                  LET c == Store_clear(name, current_store, fs)
                  IN  IF c.ok
                      THEN Returned(TextResp(Text("1\n")),
                                    [st EXCEPT !.store[name] = c.s], fs)
                      ELSE Panicked(st, fs)
             [] string = FLUSH ->
                  Returned(TextResp(Text("1\n")), st,
                           Store_flush(name, current_store, fs))

\* gen_response
gen_response(string, st, fs, cfg) ==
  CASE string = EmptyReq -> Returned(TextResp(Text("")), st, fs)
    [] string = PING -> Returned(TextResp(Text("PONG.\n")), st, fs)
    [] string = HELP -> Returned(TextResp(Text("HELP_STR")), st, fs)
    [] string = INFO ->
         Returned(TextResp(Payload("info", <<>>, <<>>, InfoOf(st))), st, fs)
    [] string = BULKADD ->
         Returned(TextResp(Text("")), [st EXCEPT !.is_adding = TRUE], fs)
    [] string = DDAKLUB ->
         Returned(TextResp(Text("1\n")), [st EXCEPT !.is_adding = FALSE], fs)
    [] string = GETALL ->
         LET got == State_get(st, -1)
         IN  CASE got.kind = "Some" ->
                    Returned(BinResp(Payload("batches", <<>>, got.bytes, {})), st, fs)
               [] got.kind = "None" ->
                    Returned(ErrResp(Text("Failed to GET ALL.")), st, fs)
               [] OTHER -> Panicked(st, fs)
    [] string \in {GETALLJSON, CLEAR, FLUSH} -> CurrentArm(string, st, fs)
    [] string = CLEARALL -> ClearAll(st, fs)
    [] string = FLUSHALL -> FlushAll(st, fs)
    [] OTHER -> DefaultArm(string, st, fs, cfg)

\* the match on the response in handle_client: the status byte written,
\* or the panic of its last arm
WireStatus(resp) ==
  CASE resp.text # {} /\ resp.bin = {} -> [panic |-> FALSE, status |-> 1]
    [] resp.text = {} /\ resp.bin # {} -> [panic |-> FALSE, status |-> 1]
    [] resp.text = {} /\ resp.bin = {} /\ resp.err # {} -> [panic |-> FALSE, status |-> 0]
    [] OTHER -> [panic |-> TRUE, status |-> -1]

(***************************************************************************)
(* Bootstrap of a connection.                                              *)
(***************************************************************************)
\* init_state
init_state(fs) ==
  [current_store_name |-> DefaultName,
   is_adding |-> FALSE,
   store |-> [n \in {DefaultName} |-> Store(~fs[DefaultName].exists, 0, <<>>)]]

\* init_dbs that does not read the header count
init_dbs_zero_size(fs, st) ==
  LET stems == {n \in DOMAIN fs : fs[n].exists}
  IN  [st EXCEPT !.store =
         [n \in DOMAIN st.store \cup stems |->
            IF n \in stems THEN Store(FALSE, 0, <<>>)
            ELSE st.store[n]]]

\* one turn of the loop of init_dbs: the store of the file name
init_dbs_entry(fs, st, name) ==
  [st EXCEPT !.store =
     [n \in DOMAIN st.store \cup {name} |->
        IF n = name THEN Store(FALSE, dtf_get_size(fs[name]).val, <<>>)
        ELSE st.store[n]]]

\* init_dbs: one store per .dtf file of the folder
init_dbs(fs, st) ==
  LET stems == {n \in DOMAIN fs : fs[n].exists}
  IN  [st EXCEPT !.store =
         [n \in DOMAIN st.store \cup stems |->
            IF n \in stems THEN Store(FALSE, dtf_get_size(fs[n]).val, <<>>)
            ELSE st.store[n]]]

(***************************************************************************)
(* The folders and configurations the model draws from.                    *)
(***************************************************************************)
UpdateA == parse_line(LineA).u
UpdateB == parse_line(LineB).u

\* the .dtf files a folder may hold when the server starts
InitFiles == {NoFile, File(<<UpdateA>>)}

\* the configurations of a server
Configs ==
  {[autoflush |-> FALSE, flush_interval |-> 1]}
    \cup {[autoflush |-> TRUE, flush_interval |-> k] : k \in 1..MaxInterval}

(***************************************************************************)
(* The state machine: one connection and the data folder.                  *)
(***************************************************************************)
VARIABLES
  alive,      \* a worker is serving the connection
  panicked,   \* the last worker ended in a panic
  state,      \* the worker's State: is_adding, store, current_store_name
  settings,   \* the server's Settings
  files,      \* the data folder: store name -> file
  conns       \* the workers of a server with several connections

vars == <<alive, panicked, state, settings, files, conns>>

\* the State of no worker
NoState ==
  [current_store_name |-> DefaultName, is_adding |-> FALSE,
   store |-> [n \in {} |-> Store(FALSE, 0, <<>>)]]

\* the current store of the running worker
CurrentStore == state.store[state.current_store_name]

\* the State handle_client starts from
Bootstrap(fs) == init_dbs(fs, init_state(fs))

RECURSIVE Buffered(_, _)
Buffered(store, names) ==
  IF names = {} THEN 0
  ELSE LET n == CHOOSE x \in names : TRUE
       IN  Len(store[n].v) + Buffered(store, names \ {n})

\* the model stops a connection at MaxBuf buffered updates
Bounded(st) == Buffered(st.store, DOMAIN st.store) <= MaxBuf

\* the connections of the server with several connections
ConnIds == {"c1", "c2"}

\* a connection that is not open. A connection has its worker's State st,
\* the worker's position pc, what the worker saw of the file it is about to
\* write, and the updates known to it: those its client has sent and those
\* its worker has read from a file
NoConn ==
  [alive |-> FALSE, st |-> NoState, pc |-> "idle", seen |-> FALSE, known |-> {},
   todo |-> {}]

Init ==
  /\ alive = FALSE
  /\ panicked = FALSE
  /\ state = NoState
  /\ settings \in Configs
  /\ files \in [DbNames -> InitFiles]
  /\ conns = [c \in ConnIds |-> NoConn]

\* run_server accepts a connection; handle_client builds its State
AcceptConnection ==
  /\ ~alive
  /\ alive' = TRUE
  /\ panicked' = FALSE
  /\ state' = Bootstrap(files)
  /\ UNCHANGED <<settings, files, conns>>

\* one turn of the loop of handle_client: read a request, answer it
Request(string) ==
  /\ alive
  /\ \E r \in {gen_response(string, state, files, settings)} :
       /\ Bounded(r.st)
       /\ files' = r.fs
       /\ IF r.panic \/ WireStatus(r.resp).panic
          THEN /\ alive' = FALSE
               /\ panicked' = TRUE
               /\ state' = NoState
          ELSE /\ alive' = TRUE
               /\ panicked' = FALSE
               /\ state' = r.st
  /\ UNCHANGED <<settings, conns>>

\* the peer closes the connection: the read returns 0 bytes
Disconnect ==
  /\ alive
  /\ alive' = FALSE
  /\ panicked' = FALSE
  /\ state' = NoState
  /\ UNCHANGED <<settings, files, conns>>

Next ==
  \/ AcceptConnection
  \/ \E string \in Requests : Request(string)
  \/ Disconnect

Spec == Init /\ [][Next]_vars

(***************************************************************************)
(* The server with several connections: run_server spawns one worker per   *)
(* connection; each worker has its own State and all share the folder.     *)
(* The steps of Store::flush on the folder, the test that the file exists  *)
(* and the write, are steps of their own, so that workers interleave       *)
(* between them; so is the read of the header count that follows the write *)
(* in State::autoflush, and so are the steps of the set-up of a worker:     *)
(* init_state, the listing of the folder and the read of each header count *)
(* in init_dbs.                                                            *)
(***************************************************************************)
\* the requests of these connections: the client of c1 adds LineA with ADD
\* and clears; the client of c2 creates "a", switches to it and adds LineB
\* as a line after BULKADD; both ask INFO and GET ALL
ConcRequests(c) ==
  IF c = "c1"
  THEN {INFO, GETALL, CLEAR, AddReq(LineA)}
  ELSE {INFO, GETALL, BULKADD, LineB, CreateReq(NameA), UseReq(NameA)}

\* does string reach State::add or State::insert, and State::autoflush?
IsInsert(string, st) ==
  IF st.is_adding THEN string \notin ExactRequests ELSE StartsWith(string, ADD_)

\* the update a client sends in the request string, if it sends one: what
\* parse_line makes of the part of string that gen_response hands to it
ClientUpdates(string, st) ==
  LET data_string ==
        IF st.is_adding THEN string
        ELSE IF Contains(string, INTO_)
             THEN Slice(string, 3, Min(MatchIndices(string, INTO_)) - 2)
             ELSE SliceFrom(string, 3)
  IN  IF IsInsert(string, st) /\ ParsedLines[data_string].kind = "Some"
      THEN {ParsedLines[data_string].u}
      ELSE {}

\* the updates the worker reads from a file to answer string: those that
\* Store::load decodes for "USE <dbname>", when the State has the store, the
\* store is not in memory and its file exists
FileUpdates(string, st, fs) ==
  LET dbname == SliceFrom(string, 4)
  IN  IF /\ ~st.is_adding
         /\ StartsWith(string, USE_)
         /\ dbname \in DOMAIN st.store
         /\ ~st.store[dbname].in_memory
         /\ fs[dbname].exists
      THEN {dtf_decode(fs[dbname])[i] : i \in 1..Len(dtf_decode(fs[dbname]))}
      ELSE {}

\* the worker c goes on as conn: its State is a local of its handle_client
Deliver(cs, c, conn) == [cs EXCEPT ![c] = conn]

\* run_server spawns a worker that takes over the State of a worker that
\* is running, if there is one
ConnAcceptTakesState(c) ==
  /\ ~conns[c].alive
  /\ conns' = Deliver(conns, c,
        [alive |-> TRUE,
         st |-> IF \E d \in ConnIds : conns[d].alive
                THEN conns[CHOOSE d \in ConnIds : conns[d].alive].st
                ELSE init_state(files),
         pc |-> "read_dir", seen |-> FALSE, known |-> {}, todo |-> {}])
  /\ UNCHANGED <<alive, panicked, state, settings, files>>

\* run_server spawns handle_client for a connection: init_state, with its
\* test that default.dtf exists; init_dbs is still to come
ConnAccept(c) ==
  /\ ~conns[c].alive
  /\ conns' = Deliver(conns, c,
        [alive |-> TRUE, st |-> init_state(files),
         pc |-> "read_dir", seen |-> FALSE, known |-> {}, todo |-> {}])
  /\ UNCHANGED <<alive, panicked, state, settings, files>>

\* the fs::read_dir of init_dbs: the .dtf files that the folder holds now
ConnReadDir(c) ==
  /\ conns[c].alive /\ conns[c].pc = "read_dir"
  /\ LET stems == {n \in DOMAIN files : files[n].exists}
     IN  conns' = Deliver(conns, c,
           [conns[c] EXCEPT !.todo = stems,
                            !.pc = IF stems = {} THEN "idle" ELSE "get_size"])
  /\ UNCHANGED <<alive, panicked, state, settings, files>>

\* one turn of the loop of init_dbs: the header count of one of the files
\* listed, as the file is by now, and its store; the order of the files is
\* the folder's
ConnGetSize(c) ==
  /\ conns[c].alive /\ conns[c].pc = "get_size"
  /\ \E name \in conns[c].todo :
       conns' = Deliver(conns, c,
         [conns[c] EXCEPT
            !.st = init_dbs_entry(files, @, name),
            !.todo = @ \ {name},
            !.pc = IF conns[c].todo = {name} THEN "idle" ELSE "get_size"])
  /\ UNCHANGED <<alive, panicked, state, settings, files>>

\* a request other than FLUSH: gen_response up to State::autoflush; when
\* an update was added and a flush is due, the test of Store::flush that
\* the file exists, the write being a later step
ConnRequest(c, string) ==
  /\ conns[c].alive /\ conns[c].pc = "idle"
  /\ \E r \in {gen_response(string, conns[c].st, files,
                            [settings EXCEPT !.autoflush = FALSE])} :
       /\ Bounded(r.st)
       /\ files' = r.fs
       /\ conns' = Deliver(conns, c,
            IF r.panic \/ WireStatus(r.resp).panic THEN NoConn
            ELSE LET known == conns[c].known \cup ClientUpdates(string, conns[c].st)
                                \cup FileUpdates(string, conns[c].st, files)
                 IN  IF /\ IsInsert(string, conns[c].st)
                        /\ r.resp.err = {}
                        /\ AutoflushDue(r.st, settings)
                     THEN [conns[c] EXCEPT
                             !.st = r.st, !.known = known, !.pc = "autoflush",
                             !.seen = files[r.st.current_store_name].exists]
                     ELSE [conns[c] EXCEPT !.st = r.st, !.known = known])
  /\ UNCHANGED <<alive, panicked, state, settings>>

\* FLUSH: the test of Store::flush that the file exists
ConnFlushCheck(c) ==
  /\ conns[c].alive /\ conns[c].pc = "idle"
  /\ conns' = Deliver(conns, c,
        [conns[c] EXCEPT !.pc = "flush",
                         !.seen = files[conns[c].st.current_store_name].exists])
  /\ UNCHANGED <<alive, panicked, state, settings, files>>

\* the write of Store::flush: dtf::append if the file was seen, dtf::encode
\* if not; in State::autoflush, load_size_from_file is still to come
ConnFlushWrite(c) ==
  /\ conns[c].alive /\ conns[c].pc \in {"flush", "autoflush"}
  /\ LET name    == conns[c].st.current_store_name
         s       == conns[c].st.store[name]
         written == IF conns[c].seen THEN dtf_append(files[name], s.v)
                    ELSE dtf_encode(s.v)
     IN  files' = [files EXCEPT ![name] = written]
  /\ conns' = Deliver(conns, c,
        IF conns[c].pc = "autoflush"
        THEN [conns[c] EXCEPT !.pc = "load_size"]
        ELSE [conns[c] EXCEPT !.pc = "idle"])
  /\ UNCHANGED <<alive, panicked, state, settings>>

\* the load_size_from_file of State::autoflush: the header count of the
\* file as it is by now
ConnLoadSize(c) ==
  /\ conns[c].alive /\ conns[c].pc = "load_size"
  /\ LET name  == conns[c].st.current_store_name
         sized == Store_load_size_from_file(name, conns[c].st.store[name], files)
     IN  conns' = Deliver(conns, c,
           IF sized.ok
           THEN [conns[c] EXCEPT !.st.store[name] = sized.s, !.pc = "idle"]
           ELSE NoConn)
  /\ UNCHANGED <<alive, panicked, state, settings, files>>

\* the peer closes the connection
ConnDisconnect(c) ==
  /\ conns[c].alive /\ conns[c].pc = "idle"
  /\ conns' = Deliver(conns, c, NoConn)
  /\ UNCHANGED <<alive, panicked, state, settings, files>>

\* a step of the worker of connection c
ConnStep(c) ==
  \/ ConnAccept(c)
  \/ ConnReadDir(c)
  \/ ConnGetSize(c)
  \/ \E string \in ConcRequests(c) : ConnRequest(c, string)
  \/ ConnFlushCheck(c)
  \/ ConnFlushWrite(c)
  \/ ConnLoadSize(c)
  \/ ConnDisconnect(c)

NextConc == \E c \in ConnIds : ConnStep(c)

\* the folder of these connections starts with or without default.dtf, and
\* without a.dtf
InitConc == Init /\ ~files[NameA].exists

SpecConc == InitConc /\ [][NextConc]_vars

(***************************************************************************)
(* What a sequence of requests comes to, from a given State and folder.    *)
(***************************************************************************)
RECURSIVE Run(_, _, _, _)
Run(reqs, st, fs, cfg) ==
  IF Len(reqs) = 1 THEN gen_response(reqs[1], st, fs, cfg)
  ELSE LET r == gen_response(reqs[1], st, fs, cfg)
       IN  IF r.panic THEN r ELSE Run(Tail(reqs), r.st, r.fs, cfg)

\* the answer of the running worker to one request, and to several
Answer(string) == gen_response(string, state, files, settings)
AnswerAll(reqs) == Run(reqs, state, files, settings)

IsError(r) == ~r.panic /\ r.resp.err # {} /\ WireStatus(r.resp).status = 0
HeaderCount(file) == dtf_get_size(file).val

\* most lines sent between BULKADD and DDAKLUB
MaxBulk == 2

\* the lines of the model that are well-formed updates
ValidLines == {LineA, LineB}

\* the sequences of at most MaxBulk valid lines
BulkLines == UNION {[1..k -> ValidLines] : k \in 0..MaxBulk}

\* the running worker has just been set up
Fresh == alive /\ state = Bootstrap(files)

(***************************************************************************)
(* The claims.                                                             *)
(***************************************************************************)

\* C1: after any command, from any reachable state of a connection, every
\* store whose in_memory flag is true has size equal to the length of its
\* buffer v.
C1_InMemorySizeIsBufferLength ==
  alive =>
    \A string \in Requests :
      LET r == Answer(string)
      IN  ~r.panic =>
            \A n \in DOMAIN r.st.store :
              r.st.store[n].in_memory =>
                r.st.store[n].size = Len(r.st.store[n].v)

\* C2: in every reachable state of a connection, every store whose
\* in_memory flag is false has an empty buffer and a size equal to the
\* header count of its file (0 when the file is absent).
C2_NotInMemoryIsEmptyAndHeaderSized ==
  alive =>
    \A n \in DOMAIN state.store :
      ~state.store[n].in_memory =>
        /\ state.store[n].v = <<>>
        /\ state.store[n].size = HeaderCount(files[n])

\* C3: the current store name is always a key of the store map: it is
\* "default" after bootstrap and names an existing store after every
\* command, so no request panics for want of the current store.
C3_CurrentStoreExists ==
  /\ Bootstrap(files).current_store_name = DefaultName
  /\ DefaultName \in DOMAIN Bootstrap(files).store
  /\ alive => state.current_store_name \in DOMAIN state.store

\* C3 witness: the connection has created the store "a", which has no
\* file, and a USE has made it the current store.
C3_Witness ==
  /\ alive
  /\ state.current_store_name = NameA
  /\ ~files[NameA].exists
  /\ DOMAIN state.store = DbNames

\* C4: BULKADD, then N lines that parse, then DDAKLUB: the current store's
\* size is N larger than before, is_adding is false and the last response
\* is the text "1\n", from every state and under every configuration.
C4_BulkAddGrowsSizeByN ==
  alive =>
    \A ls \in BulkLines :
      LET r == AnswerAll(<<BULKADD>> \o ls \o <<DDAKLUB>>)
      IN  /\ ~r.panic
          /\ r.st.store[r.st.current_store_name].size = CurrentStore.size + Len(ls)
          /\ ~r.st.is_adding
          /\ r.resp = TextResp(Text("1\n"))

\* C5: on a fresh connection with no file of "a", after
\* CREATE a; USE a; ADD <line>, INFO describes a as in memory with count 1.
C5_InfoInMemoryAfterAdd ==
  (Fresh /\ ~files[NameA].exists) =>
    \A l \in ValidLines :
      LET r == AnswerAll(<<CreateReq(NameA), UseReq(NameA), AddReq(l), INFO>>)
      IN  /\ ~r.panic
          /\ \E p \in r.resp.text :
               [name |-> NameA, in_memory |-> TRUE, count |-> 1] \in p.info

\* C6: outside bulk-add mode, ADD <line> INTO <name> with a name that is
\* no key of the store map is answered with an error, and the worker keeps
\* serving.
C6_AddIntoMissingIsAnError ==
  (alive /\ ~state.is_adding) =>
    \A l \in {LineA, Padded(LineA), Padded(LineB)} :
      \A n \in DbNames \ DOMAIN state.store :
        IsError(Answer(AddIntoReq(l, n)))

\* C7: a line whose price is written as a negative number is rejected: the
\* parser yields no Update, ADD answers with an error and nothing is stored.
C7_NegativePriceRejected ==
  alive =>
    /\ parse_line(NegLine).kind = "None"
    /\ ~state.is_adding =>
         /\ IsError(Answer(AddReq(NegLine)))
         /\ Answer(AddReq(NegLine)).st = state
         /\ Answer(AddReq(NegLine)).fs = files

\* C8: outside bulk-add mode, with s the size of the current store, GET n
\* is an error iff s < n or s = 0, GET n AS JSON is an error iff s <= n or
\* s = 0, and for s = n > 0 the binary GET succeeds and the JSON GET fails.
C8_GetFailsIffTooMany ==
  (alive /\ ~state.is_adding) =>
    \A n \in 0..MaxGet :
      LET s  == CurrentStore.size
          rb == Answer(GetReq(n))
          rj == Answer(GetJsonReq(n))
      IN  /\ IsError(rb) <=> (s < n \/ s = 0)
          /\ IsError(rj) <=> (s <= n \/ s = 0)
          /\ (s = n /\ n > 0) => (~rb.panic /\ rb.resp.bin # {} /\ IsError(rj))

\* C9: whatever the request and the state, the response of gen_response
\* has exactly one of text, binary and error populated, handle_client
\* writes status 1 iff there is no error message, and its last arm is
\* never taken.
C9_ExactlyOnePopulated ==
  alive =>
    \A string \in Requests :
      LET r == Answer(string)
      IN  ~r.panic =>
            /\ Cardinality(r.resp.text) + Cardinality(r.resp.bin)
                 + Cardinality(r.resp.err) = 1
            /\ ~WireStatus(r.resp).panic
            /\ WireStatus(r.resp).status = 1 <=> r.resp.err = {}

\* C9 witness: a state in which requests are answered with a text, with a
\* binary payload and with an error.
C9_Witness ==
  /\ alive
  /\ Answer(PING).resp.text # {}
  /\ ~Answer(GetReq(1)).panic /\ Answer(GetReq(1)).resp.bin # {}
  /\ IsError(Answer(Unsupported))
  /\ IsError(Answer(GetJsonReq(1)))

\* a store as CLEAR is to leave it: not in memory, empty, sized by the
\* header of its file (no update counted when there is no file)
Cleared(s, file) ==
  /\ ~s.in_memory
  /\ s.v = <<>>
  /\ s.size = HeaderCount(file)

\* C10: CLEAR is answered and leaves the current store, and CLEAR ALL is
\* answered and leaves every store, not in memory, with an empty buffer and
\* with the size of its file's header; buffered updates that were never
\* flushed are not counted.
C10_ClearResets ==
  alive =>
    /\ LET r == Answer(CLEAR)
       IN  /\ ~r.panic
           /\ r.resp = TextResp(Text("1\n"))
           /\ Cleared(r.st.store[state.current_store_name],
                      r.fs[state.current_store_name])
    /\ LET r == Answer(CLEARALL)
       IN  /\ ~r.panic
           /\ r.resp = TextResp(Text("1\n"))
           /\ \A n \in DOMAIN state.store : Cleared(r.st.store[n], r.fs[n])

\* the updates of a buffer
Elems(v) == {v[i] : i \in 1..Len(v)}

\* C11: USE of an existing store drops no buffered update: every update
\* that was in the buffer of any store before the command is in that
\* store's buffer after it.
C11_UseKeepsBuffers ==
  (alive /\ ~state.is_adding) =>
    \A n \in DOMAIN state.store :
      LET r == Answer(UseReq(n))
      IN  /\ ~r.panic
          /\ \A m \in DOMAIN state.store :
               Elems(state.store[m].v) \subseteq Elems(r.st.store[m].v)

\* most inserts of a run of ADD requests
MaxInserts == 3

\* the runs of at most MaxInserts valid lines, each sent in an ADD
InsertRuns == UNION {[1..k -> ValidLines] : k \in 1..MaxInserts}

\* does the last insert of the run ls, made by the running worker, flush?
FlushedAtLast(ls) ==
  LET n     == Len(ls)
      pre   == IF n = 1 THEN Returned(NoResp, state, files)
               ELSE AnswerAll([i \in 1..(n - 1) |-> AddReq(ls[i])])
      added == State_add(pre.st, pre.fs, ParsedLines[ls[n]].u)
  IN  AutoflushDue(added.st, settings)

\* C12: with autoflush enabled and flush_interval = k, on a new connection
\* the n-th single-update insert is followed by a flush iff n is a
\* multiple of k.
C12_FlushAfterEveryKth ==
  (Fresh /\ settings.autoflush) =>
    \A ls \in InsertRuns :
      FlushedAtLast(ls) <=> (Len(ls) % settings.flush_interval = 0)

\* C15: the State of a new connection has the key "default" and one key per
\* .dtf file of the folder, and no other; every buffer is empty; a store
\* with a file is not in memory and has the size of the file's header; the
\* store "default" is in memory iff default.dtf does not exist, and then
\* has size 0.
C15_BootstrapShape ==
  LET b == Bootstrap(files)
  IN  /\ DOMAIN b.store = {DefaultName} \cup {n \in DOMAIN files : files[n].exists}
      /\ \A n \in DOMAIN b.store :
           /\ b.store[n].v = <<>>
           /\ files[n].exists =>
                (~b.store[n].in_memory /\ b.store[n].size = Len(files[n].ups))
      /\ b.store[DefaultName].in_memory <=> ~files[DefaultName].exists
      /\ ~files[DefaultName].exists => b.store[DefaultName].size = 0
      /\ b.current_store_name = DefaultName /\ ~b.is_adding

\* C15 witness: a connection has just been set up over a folder in which
\* default.dtf holds two updates and a.dtf does not exist.
C15_Witness ==
  /\ Fresh
  /\ files[DefaultName].exists /\ Len(files[DefaultName].ups) = 2
  /\ ~files[NameA].exists

\* is a a prefix of b?
IsPrefix(a, b) == Len(a) <= Len(b) /\ SubSeq(b, 1, Len(a)) = a

\* the file new is what a flush of the buffer v makes of the file old: it
\* exists; if old existed it is old with updates of v appended; if not it
\* holds v
FlushedFrom(old, new, v) ==
  /\ new.exists
  /\ old.exists =>
       /\ IsPrefix(old.ups, new.ups)
       /\ Elems(new.ups) \subseteq Elems(old.ups) \cup Elems(v)
  /\ ~old.exists => new.ups = v

\* C16: FLUSH and FLUSH ALL are answered "1\n" and leave the State as it
\* was; FLUSH changes the file of the current store only and FLUSH ALL the
\* files of the stores of the connection only; a flushed store's file exists
\* afterwards, appended to if it existed and encoded from the buffer if not.
C16_FlushChangesOnlyFiles ==
  alive =>
    /\ LET r == Answer(FLUSH)
       IN  /\ ~r.panic
           /\ r.resp = TextResp(Text("1\n"))
           /\ r.st = state
           /\ FlushedFrom(files[state.current_store_name],
                          r.fs[state.current_store_name], CurrentStore.v)
           /\ \A n \in DOMAIN files \ {state.current_store_name} :
                r.fs[n] = files[n]
    /\ LET r == Answer(FLUSHALL)
       IN  /\ ~r.panic
           /\ r.resp = TextResp(Text("1\n"))
           /\ r.st = state
           /\ \A n \in DOMAIN state.store :
                FlushedFrom(files[n], r.fs[n], state.store[n].v)
           /\ \A n \in DOMAIN files \ DOMAIN state.store : r.fs[n] = files[n]

\* C16 witness: the connection is in bulk-add mode, its current store
\* buffers an update that its file does not hold, and another store has no
\* file yet.
C16_Witness ==
  /\ alive
  /\ state.is_adding
  /\ files[state.current_store_name].exists
  /\ ~(Elems(CurrentStore.v) \subseteq Elems(files[state.current_store_name].ups))
  /\ \E n \in DOMAIN state.store : ~files[n].exists
  /\ Answer(FLUSH).fs # files

\* C17: in every state of a connection, bulk-add mode included,
\* ADD <valid line> INTO <name> with an existing name is answered "1\n",
\* appends the parsed update to the buffer of the store <name> and leaves
\* the buffer of every other store as it was.
C17_AddIntoAppendsToNamed ==
  alive =>
    \A l \in {LineA, Padded(LineA), Padded(LineB)} : \A n \in DOMAIN state.store :
      LET r == Answer(AddIntoReq(l, n))
      IN  /\ ~r.panic
          /\ r.resp = TextResp(Text("1\n"))
          /\ r.st.store[n].v = Append(state.store[n].v, parse_line(l).u)
          /\ \A m \in DOMAIN state.store \ {n} : r.st.store[m].v = state.store[m].v

\* the number of ',' and ';' of a line: its number of fields
Terminators(string) ==
  Cardinality({i \in 1..Len(string) : string[i] = "," \/ string[i] = ";"})

\* C18: for every line whose number of fields is not 6, fewer or more, the
\* parser yields no Update and does not abort, and an ADD of the line is
\* answered with an error.
C18_WrongFieldCountYieldsNone ==
  alive =>
    \A l \in {x \in Lines : Terminators(x) # 6} :
      /\ parse_line(l).kind = "None"
      /\ ~state.is_adding => IsError(Answer(AddReq(l)))

\* C19: a request that is answered with an error leaves the State of the
\* connection and the folder as they were.
C19_ErrorChangesNothing ==
  alive =>
    \A string \in Requests :
      LET r == Answer(string)
      IN  (~r.panic /\ r.resp.err # {}) => (r.st = state /\ r.fs = files)

\* C19 witness: a connection with a buffered update in which a line that
\* does not parse, USE of a missing store, a GET of too many updates and an
\* unsupported command are all answered with an error.
C19_Witness ==
  /\ alive /\ ~state.is_adding
  /\ CurrentStore.v # <<>>
  /\ NameA \notin DOMAIN state.store
  /\ IsError(Answer(AddReq(ShortLine)))
  /\ IsError(Answer(AddIntoReq(LineA, NameA)))
  /\ IsError(Answer(UseReq(NameA)))
  /\ IsError(Answer(GetReq(MaxGet)))
  /\ IsError(Answer(Unsupported))

\* C20: outside bulk-add mode no GET aborts the worker: a GET <n> or
\* GET <n> AS JSON that passes its test of the size reads a prefix v[..n]
\* within the buffer and returns exactly n entries.
C20_GetPrefixInBounds ==
  (alive /\ ~state.is_adding) =>
    \A n \in 0..MaxGet :
      LET rb == Answer(GetReq(n))
          rj == Answer(GetJsonReq(n))
      IN  /\ ~rb.panic /\ ~rj.panic
          /\ ~IsError(rb) => (n <= Len(CurrentStore.v)
                              /\ \E p \in rb.resp.bin : Len(p.ups) = n)
          /\ ~IsError(rj) => (n <= Len(CurrentStore.v)
                              /\ \E p \in rj.resp.text : Len(p.ups) = n)

\* C13: store files are append-only under every interleaving of the
\* workers: a file that exists goes on existing, keeps every update it
\* holds, and its header count does not decrease.
C13_FilesAppendOnly ==
  [][\A n \in DOMAIN files :
       files[n].exists =>
         /\ files'[n].exists
         /\ Elems(files[n].ups) \subseteq Elems(files'[n].ups)
         /\ Len(files'[n].ups) >= Len(files[n].ups)]_vars

\* the updates in the answers of connection c to GET ALL and GET ALL AS JSON
Observed(c) ==
  UNION {UNION {Elems(p.ups) : p \in r.text \cup r.bin} :
           r \in {gen_response(q, conns[c].st, files, settings).resp :
                    q \in {GETALL, GETALLJSON}}}

\* the stores of connection c hold, and its GET shows, only updates that its
\* client sent or that its worker read from a file
OwnUpdatesOnly(c) ==
  conns[c].alive =>
    /\ \A n \in DOMAIN conns[c].st.store :
         Elems(conns[c].st.store[n].v) \subseteq conns[c].known
    /\ Observed(c) \subseteq conns[c].known

====
